---- MODULE Spec2Model ----
(***************************************************************************)
(* Model of the SCQL broker coordination core:                             *)
(*   pkg/broker/executor/query_runner.go  (QueryRunner)                    *)
(*   package application, StorageGc / SessionGc background loops           *)
(***************************************************************************)
EXTENDS Integers, Sequences, FiniteSets, TLC

(***************************************************************************)
(* Bounds                                                                  *)
(***************************************************************************)
MaxRetryTimes == 3
NumReplicas == 2
MaxTime == 4
MaxSessions == 3
MaxDrift == 1
MaxPrepares == 2
MaxExecutes == 1

\* the column control entries of one CreateChecksum call
MaxCcls == 2

\* the parties of a compiled plan
MaxPlanParties == 2

(***************************************************************************)
(* Values shared by the sub-models                                         *)
(***************************************************************************)
Nil == "nil"

Parties == {1, 2, 3}

\* pb.Code values used by ExchangeJobInfo; "OTHER" stands for every other
\* non-zero code.
Code_OK == "OK"
Code_SESSION_NOT_FOUND == "SESSION_NOT_FOUND"
Code_DATA_INCONSISTENCY == "DATA_INCONSISTENCY"
Code_OTHER == "OTHER"
Codes == {Code_OK, Code_SESSION_NOT_FOUND, Code_DATA_INCONSISTENCY, Code_OTHER}

VARIABLES
    \* ---- ExchangeJobInfo ----
    xPc,          \* position: "idle", "loop", "after", "done"
    xRetryTimes,  \* session.App.Conf.ExchangeJobInfoRetryTimes
    xTarget,      \* targetParty, 0 when no call is in progress
    xI,           \* loop variable i
    xResponse,    \* the response object the stub fills
    xResult,      \* what the call returned: [resp, err]
    xLog,         \* observable events of the call: "rpc" and "sleep"
    xHist         \* what each RPC attempt delivered

VARIABLES
    \* ---- StorageGc, one loop per broker replica ----
    gNow,         \* wall clock
    gLease,       \* the GC lease row: [exists, owner, expiry]
    gHostname,    \* HOSTNAME of each replica's environment, "" when unset
    gPc,          \* position of each replica's StorageGc
    gGrants,      \* every lease grant made so far: [owner, at, expiry]
    gLast         \* each replica's last HoldGcLock attempt

VARIABLES
    \* ---- SessionGc ----
    sSessions,    \* app.Sessions: ids of the in-memory sessions
    sUsed,        \* session ids handed out so far
    sCanceledDb,  \* ids recorded as canceled in the metadata store
    sPc,          \* position of SessionGc
    sIds,         \* ids snapshot of the current tick
    sTodo,        \* canceledIds still to be deleted in the current tick
    sReported,    \* canceledIds as returned to the current tick
    sDeleted,     \* sessions deleted by the current tick
    sInserted,    \* sessions inserted since the current tick's snapshot
    sLookupFailed \* CheckIdCanceled failed in the current tick

VARIABLES
    \* ---- the metadata store of this party ----
    stPresent,    \* names of the tables whose metadata is stored locally
    stBType,      \* declared type of T_B.COL_B
    stBPriv,      \* privilege of party 1 on T_B.COL_B
    stDrifts,     \* number of changes made to the store from outside
    \* ---- the session of one query ----
    qNames,       \* names of the tables the query uses
    execIssuer,   \* ExecuteInfo.Issuer.Code
    asyncMode,    \* Session.AsyncMode
    cbPending,    \* runs whose engine has yet to report back (async mode)
    ctxCanceled,  \* Session.Ctx is canceled
    execDataParties,  \* ExecuteInfo.DataParties
    localChecksums,   \* ExecuteInfo.Checksums, local side: party -> optional
    remoteChecksums,  \* ExecuteInfo.Checksums, remote side: party -> optional
    persisted,    \* number of times the session was persisted
    resultLog,    \* writers of the session's result slot, in order
    \* ---- QueryRunner ----
    rTables,      \* r.tables
    rInfo,        \* r.info, optional
    rIs,          \* r.is, optional
    rCcls,        \* r.ccls
    rPrepareAgain,\* r.prepareAgain
    \* ---- the Prepare calls ----
    pCalls,       \* number of Prepare calls made
    pLast,        \* what the last Prepare call returned
    \* ---- Execute ----
    eRuns,        \* number of Execute calls made
    ePc,          \* position: "idle", "compile", "executor", "persist",
                  \* "engine", "done"
    eReprepared,  \* the run took the prepareAgain path
    ePlan,        \* the compiled plan, optional
    eExecutor,    \* the executor built, optional
    eErr,         \* the error Execute returned
    eLog,         \* the steps the current run has performed
    fnArgs,       \* the arguments a function under study is given
    fnResult      \* what it returned, optional

xvars == <<xPc, xRetryTimes, xTarget, xI, xResponse, xResult, xLog, xHist>>

gvars == <<gNow, gLease, gHostname, gPc, gGrants, gLast>>

svars == <<sSessions, sUsed, sCanceledDb, sPc, sIds, sTodo, sReported,
           sDeleted, sInserted, sLookupFailed>>

stvars == <<stPresent, stBType, stBPriv, stDrifts>>

qvars == <<qNames, execIssuer, asyncMode, cbPending, ctxCanceled, execDataParties, localChecksums,
           remoteChecksums, persisted, resultLog>>

rvars == <<rTables, rInfo, rIs, rCcls, rPrepareAgain>>

evars == <<eRuns, ePc, eReprepared, ePlan, eExecutor, eErr, eLog>>

pvars == <<pCalls, pLast>>

runvars == <<stvars, qvars, rvars, pvars, evars>>

fvars == <<fnArgs, fnResult>>

vars == <<xvars, gvars, svars, runvars, fvars>>

\* what the steps of one sub-model leave alone
ExchangeFrame == UNCHANGED <<gvars, svars, runvars, fvars>>

StorageGcFrame == UNCHANGED <<xvars, svars, runvars, fvars>>

SessionGcFrame == UNCHANGED <<xvars, gvars, runvars, fvars>>

RunnerFrame == UNCHANGED <<xvars, gvars, svars, fvars>>

FnFrame == UNCHANGED <<xvars, gvars, svars, runvars>>

(***************************************************************************)
(* ExchangeJobInfo  (query_runner.go:118-168)                              *)
(***************************************************************************)
\* pb.ExchangeJobInfoResponse: only the status object matters here.
\* status = Nil is a response without a status object.
EmptyResponse == [status |-> Nil]

Responses == [status : Codes \cup {Nil}]

\* response.GetStatus().GetCode(): the generated getters are nil-safe, a
\* missing status object reads as code 0.
GetStatusCode(resp) == IF resp.status = Nil THEN Code_OK ELSE resp.status

\* a nil *pb.ExchangeJobInfoResponse
NilResponse == [status |-> "nilptr"]

NoResult == [resp |-> NilResponse, err |-> Nil]

\* line 151: sleep only when another attempt follows
ShouldSleep_Always(i, retryTimes) == TRUE

ShouldSleep(i, retryTimes) == i < retryTimes - 1

\* lines 161-167: classification of the response once the loop is left
AfterLoopResult_DataInconsistencyFatal(resp) ==
    IF resp.status = Nil
    THEN [resp |-> NilResponse, err |-> "ErrResponse"]
    ELSE [resp |-> NilResponse, err |-> "ErrExchangeFailed"]

AfterLoopResult(resp) ==
    IF resp.status = Nil
    THEN [resp |-> NilResponse, err |-> "ErrResponse"]
    ELSE IF resp.status = Code_DATA_INCONSISTENCY
         THEN [resp |-> resp, err |-> Nil]
         ELSE [resp |-> NilResponse, err |-> "ErrExchangeFailed"]

ExchInit ==
    /\ xPc = "idle"
    /\ xRetryTimes \in 0..MaxRetryTimes
    /\ xTarget = 0
    /\ xI = 0
    /\ xResponse = EmptyResponse
    /\ xResult = NoResult
    /\ xLog = <<>>
    /\ xHist = <<>>

\* lines 119-143: build the request, look up the local checksum and the
\* peer's url; either lookup may fail.
ExchangeStart ==
    /\ xPc = "idle"
    /\ \E target \in Parties, lookupOk \in BOOLEAN :
        /\ xTarget' = target
        /\ IF lookupOk
           THEN /\ xPc' = IF 0 < xRetryTimes THEN "loop" ELSE "after"
                /\ xResult' = NoResult
           ELSE /\ xPc' = "done"
                /\ xResult' = [resp |-> NilResponse, err |-> "ErrExchangeJobInfoStub"]
    /\ xI' = 0
    /\ xResponse' = EmptyResponse
    /\ xLog' = <<>>
    /\ xHist' = <<>>
    /\ UNCHANGED xRetryTimes
    /\ ExchangeFrame

\* lines 145-160: one iteration of the retry loop
ExchangeAttempt ==
    /\ xPc = "loop"
    /\ xI < xRetryTimes
    /\ \/ \* line 147: the stub reports an error
          /\ xPc' = "done"
          /\ xResult' = [resp |-> NilResponse, err |-> "ErrExchangeJobInfoStub"]
          /\ xLog' = Append(xLog, "rpc")
          /\ xHist' = Append(xHist, "rpcerr")
          /\ UNCHANGED <<xI, xResponse>>
       \/ \E resp \in Responses :
          /\ xResponse' = resp
          /\ xHist' = Append(xHist, resp.status)
          /\ IF GetStatusCode(resp) = Code_SESSION_NOT_FOUND
             THEN /\ xLog' = IF ShouldSleep(xI, xRetryTimes)
                             THEN xLog \o <<"rpc", "sleep">>
                             ELSE Append(xLog, "rpc")
                  /\ xI' = xI + 1
                  /\ xPc' = IF xI + 1 < xRetryTimes THEN "loop" ELSE "after"
                  /\ UNCHANGED xResult
             ELSE /\ xLog' = Append(xLog, "rpc")
                  /\ UNCHANGED xI
                  /\ IF GetStatusCode(resp) = Code_OK
                     THEN /\ xPc' = "done"
                          /\ xResult' = [resp |-> resp, err |-> Nil]
                     ELSE /\ xPc' = "after"
                          /\ UNCHANGED xResult
    /\ UNCHANGED <<xRetryTimes, xTarget>>
    /\ ExchangeFrame

\* lines 161-167
ExchangeAfterLoop ==
    /\ xPc = "after"
    /\ xPc' = "done"
    /\ xResult' = AfterLoopResult(xResponse)
    /\ UNCHANGED <<xRetryTimes, xTarget, xI, xResponse, xLog, xHist>>
    /\ ExchangeFrame

NextExchange ==
    \/ ExchangeStart
    \/ ExchangeAttempt
    \/ ExchangeAfterLoop

\* ExchangeJobInfo not in use
ExchOff ==
    /\ xPc = "idle"
    /\ xRetryTimes = 0
    /\ xTarget = 0
    /\ xI = 0
    /\ xResponse = EmptyResponse
    /\ xResult = NoResult
    /\ xLog = <<>>
    /\ xHist = <<>>

(***************************************************************************)
(* StorageGc  (package application, StorageGc)                             *)
(***************************************************************************)
Replicas == 1..NumReplicas

\* app.Conf.SessionCheckInterval, in clock units
SessionCheckInterval == 2

\* app.Conf.PartyCode: the replicas of one broker share the party code
PartyCode == "alice"

Hostnames == {"", "host1", "host2"}

\* lines 35-40: HOSTNAME when set, the party code otherwise
GcOwner(r) == IF gHostname[r] # "" THEN gHostname[r] ELSE PartyCode

\* no row in the lock table
NoLease == [exists |-> FALSE, owner |-> "", expiry |-> 0]

LeaseExpired(lease) == lease.expiry < gNow

\* MetaMgr.HoldGcLock(owner, ttl): the acquire succeeds if no row exists,
\* the row is expired, or the row's owner equals the caller.
HoldGcLockOk_Always(owner) == TRUE

HoldGcLockOk(owner) ==
    \/ ~gLease.exists
    \/ LeaseExpired(gLease)
    \/ gLease.owner = owner

NoAttempt == [at |-> -1, ok |-> FALSE, before |-> NoLease]

GcInit ==
    /\ gNow = 1
    /\ gLease = NoLease
    /\ gHostname \in [Replicas -> Hostnames]
    /\ gPc = [r \in Replicas |-> "start"]
    /\ gGrants = {}
    /\ gLast = [r \in Replicas |-> NoAttempt]

GcOff ==
    /\ gNow = 1
    /\ gLease = NoLease
    /\ gHostname = [r \in Replicas |-> ""]
    /\ gPc = [r \in Replicas |-> "start"]
    /\ gGrants = {}
    /\ gLast = [r \in Replicas |-> NoAttempt]

\* lines 27-40: InitGcLockIfNecessary creates the (free) lease row when it
\* is missing; when it fails StorageGc returns.
StorageGcStart(r) ==
    /\ gPc[r] = "start"
    /\ \E ok \in BOOLEAN :
        IF ok
        THEN /\ gPc' = [gPc EXCEPT ![r] = "wait"]
             /\ gLease' = IF ~gLease.exists
                          THEN [exists |-> TRUE, owner |-> "", expiry |-> 0]
                          ELSE gLease
        ELSE /\ gPc' = [gPc EXCEPT ![r] = "exited"]
             /\ UNCHANGED gLease
    /\ UNCHANGED <<gNow, gHostname, gGrants, gLast>>
    /\ StorageGcFrame

\* lines 42-51: a tick arrives, the replica tries to take the lease for one
\* tick interval and, when it got it, enters ClearExpiredResults.  The
\* tickers of the replicas are not synchronised and a tick that arrived
\* during a scan is delivered right after it.
StorageGcTick(r) ==
    /\ gPc[r] = "wait"
    /\ LET owner == GcOwner(r)
           ok == HoldGcLockOk(owner)
       IN /\ gLast' = [gLast EXCEPT ![r] =
                         [at |-> gNow, ok |-> ok, before |-> gLease]]
          /\ IF ok
             THEN /\ gLease' = [exists |-> TRUE, owner |-> owner,
                                expiry |-> gNow + SessionCheckInterval]
                  /\ gGrants' = gGrants \cup
                        {[owner |-> owner, at |-> gNow,
                          expiry |-> gNow + SessionCheckInterval]}
                  /\ gPc' = [gPc EXCEPT ![r] = "scan"]
             ELSE /\ UNCHANGED <<gLease, gGrants, gPc>>
    /\ UNCHANGED <<gNow, gHostname>>
    /\ StorageGcFrame

\* lines 51-56: ClearExpiredResults returns (with or without an error, which
\* is only logged) and the loop waits for the next tick.
StorageGcScanDone(r) ==
    /\ gPc[r] = "scan"
    /\ gPc' = [gPc EXCEPT ![r] = "wait"]
    /\ UNCHANGED <<gNow, gLease, gHostname, gGrants, gLast>>
    /\ StorageGcFrame

\* time passes
ClockTick ==
    /\ gNow < MaxTime
    /\ gNow' = gNow + 1
    /\ UNCHANGED <<gLease, gHostname, gPc, gGrants, gLast>>
    /\ StorageGcFrame

(***************************************************************************)
(* SessionGc  (package application, SessionGc)                             *)
(***************************************************************************)
SessionIds == 1..MaxSessions

SgcInit ==
    /\ sSessions = {}
    /\ sUsed = {}
    /\ sCanceledDb = {}
    /\ sPc = "wait"
    /\ sIds = {}
    /\ sTodo = {}
    /\ sReported = {}
    /\ sDeleted = {}
    /\ sInserted = {}
    /\ sLookupFailed = FALSE

\* a query is submitted: its session enters the registry under a fresh id
InsertSession ==
    /\ \E id \in SessionIds \ sUsed :
        /\ sSessions' = sSessions \cup {id}
        /\ sUsed' = sUsed \cup {id}
        /\ sInserted' = sInserted \cup {id}
    /\ UNCHANGED <<sCanceledDb, sPc, sIds, sTodo, sReported, sDeleted,
                   sLookupFailed>>
    /\ SessionGcFrame

\* a session is canceled from outside: the metadata store records it
CancelSession ==
    /\ \E id \in sUsed \ sCanceledDb :
        sCanceledDb' = sCanceledDb \cup {id}
    /\ UNCHANGED <<sSessions, sUsed, sPc, sIds, sTodo, sReported, sDeleted,
                   sInserted, sLookupFailed>>
    /\ SessionGcFrame

\* MetaMgr.CheckIdCanceled(ids): those of ids that are recorded canceled
CheckIdCanceled(ids) == ids \cap sCanceledDb

\* lines 63-69: a tick arrives and the ids of the registry are copied
SessionGcTick ==
    /\ sPc = "wait"
    /\ sPc' = "check"
    /\ sIds' = sSessions
    /\ sTodo' = {}
    /\ sReported' = {}
    /\ sDeleted' = {}
    /\ sInserted' = {}
    /\ sLookupFailed' = FALSE
    /\ UNCHANGED <<sSessions, sUsed, sCanceledDb>>
    /\ SessionGcFrame

\* lines 71-75: the lookup; on an error the tick is given up
SessionGcCheck_DeleteSnapshot ==
    /\ sPc = "check"
    /\ \E ok \in BOOLEAN :
        IF ok
        THEN /\ sReported' = CheckIdCanceled(sIds)
             /\ sTodo' = sIds
             /\ sPc' = "delete"
             /\ UNCHANGED sLookupFailed
        ELSE /\ sLookupFailed' = TRUE
             /\ sPc' = "wait"
             /\ UNCHANGED <<sReported, sTodo>>
    /\ UNCHANGED <<sSessions, sUsed, sCanceledDb, sIds, sDeleted, sInserted>>
    /\ SessionGcFrame

SessionGcCheck ==
    /\ sPc = "check"
    /\ \E ok \in BOOLEAN :
        IF ok
        THEN /\ sReported' = CheckIdCanceled(sIds)
             /\ sTodo' = CheckIdCanceled(sIds)
             /\ sPc' = "delete"
             /\ UNCHANGED sLookupFailed
        ELSE /\ sLookupFailed' = TRUE
             /\ sPc' = "wait"
             /\ UNCHANGED <<sReported, sTodo>>
    /\ UNCHANGED <<sSessions, sUsed, sCanceledDb, sIds, sDeleted, sInserted>>
    /\ SessionGcFrame

\* lines 76-78: app.DeleteSession(id) for the next canceled id
SessionGcDelete ==
    /\ sPc = "delete"
    /\ IF sTodo = {}
       THEN /\ sPc' = "wait"
            /\ UNCHANGED <<sSessions, sTodo, sDeleted>>
       ELSE \E id \in sTodo :
            /\ sSessions' = sSessions \ {id}
            /\ sDeleted' = IF id \in sSessions
                           THEN sDeleted \cup {id}
                           ELSE sDeleted
            /\ sTodo' = sTodo \ {id}
            /\ UNCHANGED sPc
    /\ UNCHANGED <<sUsed, sCanceledDb, sIds, sReported, sInserted,
                   sLookupFailed>>
    /\ SessionGcFrame

(***************************************************************************)
(* Strings.  A string is a sequence of character codes; the codes keep     *)
(* the order of the bytes they stand for (space < '.' < letters).          *)
(***************************************************************************)
\* the separator of strings.Join (line 104)
SP == 0

\* the separator of core.DbTable.String(), "db.table"
DOT == 1

Min(a, b) == IF a < b THEN a ELSE b

\* Go's < on strings: bytewise lexicographic order
StrLess(a, b) ==
    \E i \in 1..(Min(Len(a), Len(b)) + 1) :
        /\ \A j \in 1..(i - 1) : a[j] = b[j]
        /\ \/ (i > Len(a) /\ i <= Len(b))
           \/ (i <= Len(a) /\ i <= Len(b) /\ a[i] < b[i])

RECURSIVE Concat(_)
\* the bytes written to a hash one Write after the other
Concat(strs) ==
    IF strs = <<>> THEN <<>> ELSE Head(strs) \o Concat(Tail(strs))

\* strings.Join(parts, " ")
JoinSP(parts) ==
    Concat([i \in 1..Len(parts) |->
               IF i = 1 THEN parts[i] ELSE <<SP>> \o parts[i]])

\* sort.Slice on the short slices of one query is an insertion sort: an
\* element moves left while it is less than its left neighbour.  Elements
\* are <<key, value>> pairs.
RECURSIVE InsertByKey(_, _)
InsertByKey(sorted, x) ==
    IF sorted = <<>>
    THEN <<x>>
    ELSE LET last == sorted[Len(sorted)]
         IN IF StrLess(x[1], last[1])
            THEN Append(InsertByKey(SubSeq(sorted, 1, Len(sorted) - 1), x),
                        last)
            ELSE Append(sorted, x)

RECURSIVE SortByKey(_)
SortByKey(pairs) ==
    IF pairs = <<>>
    THEN <<>>
    ELSE InsertByKey(SortByKey(SubSeq(pairs, 1, Len(pairs) - 1)),
                     pairs[Len(pairs)])

SeqMap(Op(_), seq) == [i \in 1..Len(seq) |-> Op(seq[i])]

SeqToSet(seq) == {seq[i] : i \in 1..Len(seq)}

\* the optional value of a pointer or interface: <<>> is nil
None == <<>>

Some(x) == <<x>>

(***************************************************************************)
(* The project under query                                                 *)
(***************************************************************************)
\* session.App.Conf.PartyCode / session.GetSelfPartyCode()
SelfParty == 1

\* session.ExecuteInfo.ProjectID, used as the database name
ProjectID == <<5>>

\* table names
T_A == <<10>>
T_B == <<11>>

\* column names
COL_A == <<20>>
COL_B == <<21>>

\* party codes as they appear in strings
PartyStr(p) == <<50 + p>>

\* strings.ToLower on a declared column type (line 289)
ToLower(dtype) ==
    CASE dtype = "INT" -> "int"
      [] dtype = "STRING" -> "string"
      [] OTHER -> dtype

\* infoschema.TypeConversion: the declared types the planner knows
TypeKnown(lowered) == lowered \in {"int", "string"}

\* ColumnInfo.GetTypeDesc() of the converted field type
TypeDesc(lowered) ==
    CASE lowered = "int" -> <<30>>
      [] lowered = "string" -> <<31>>
      [] OTHER -> <<39>>

\* strings.ToUpper on a stored privilege and the lookup in
\* SecurityConfig_ColumnControl_Visibility_value; a name the enum does
\* not have reads as the zero value (line 242)
VisibilityOf(priv) ==
    CASE priv \in {"plaintext", "PLAINTEXT"} -> "PLAINTEXT"
      [] priv \in {"encrypted_only", "ENCRYPTED_ONLY"} -> "ENCRYPTED_ONLY"
      [] OTHER -> "UNKNOWN"

\* Visibility.String()
VisString(v) ==
    CASE v = "PLAINTEXT" -> <<41>>
      [] v = "ENCRYPTED_ONLY" -> <<42>>
      [] OTHER -> <<40>>

\* core.DbTable.String()
DbTableString(tableName) == ProjectID \o <<DOT>> \o tableName

\* storage.TableMeta of the tables that exist in the project.  bType is
\* the declared type of T_B's column COL_B, which its owner may change.
TableMetaOf(tableName, bType) ==
    IF tableName = T_A
    THEN [name |-> T_A, owner |-> 1,
          columns |-> <<[name |-> COL_A, dtype |-> "int"]>>]
    ELSE [name |-> T_B, owner |-> 2,
          columns |-> <<[name |-> COL_B, dtype |-> bType],
                        [name |-> COL_A, dtype |-> "INT"]>>]

ExistingTables == {T_A, T_B}

\* the column constraints stored for the project, in retrieval order.
\* bPriv is the privilege party 1 has on T_B.COL_B, which may change.
ColumnPrivsOf(bPriv) ==
    << [table |-> T_B, column |-> COL_B, dest |-> 1, priv |-> bPriv],
       [table |-> T_B, column |-> COL_B, dest |-> 3, priv |-> "PLAINTEXT"],
       [table |-> T_A, column |-> COL_A, dest |-> 2, priv |-> "plaintext"],
       [table |-> T_B, column |-> COL_A, dest |-> 1, priv |-> "plaintext"] >>

(***************************************************************************)
(* sliceutil.SliceDeDup: sort and compact (lines 228-230)                  *)
(***************************************************************************)
RECURSIVE SortedSeqOf(_)
SortedSeqOf(set) ==
    IF set = {}
    THEN <<>>
    ELSE LET m == CHOOSE x \in set : \A y \in set : x <= y
         IN <<m>> \o SortedSeqOf(set \ {m})

SliceDeDup_AsGiven(seq) == seq

SliceDeDup(seq) == SortedSeqOf(SeqToSet(seq))

(***************************************************************************)
(* CreateInfoSchema  (query_runner.go:271-315)                             *)
(***************************************************************************)
NoErr == [kind |-> "nil", detail |-> <<>>]

\* an error; detail holds the names its message carries
Err(kind) == [kind |-> kind, detail |-> <<>>]

\* the info schema: table name -> columns [name, typeDesc] in declared order
CreateInfoSchema(tables) ==
    IF \E i \in 1..Len(tables) : \E j \in 1..Len(tables[i].columns) :
           ~TypeKnown(ToLower(tables[i].columns[j].dtype))
    THEN [is |-> None, err |-> Err("ErrTypeConversion")]
    ELSE [is |-> Some([i \in 1..Len(tables) |->
                 [name |-> tables[i].name,
                  columns |-> [j \in 1..Len(tables[i].columns) |->
                      [name |-> tables[i].columns[j].name,
                       typeDesc |->
                          TypeDesc(ToLower(tables[i].columns[j].dtype))]]]]),
          err |-> NoErr]

\* InfoSchema.TableByName
TableByName(is, tableName) ==
    SelectSeq(is, LAMBDA t : t.name = tableName)

(***************************************************************************)
(* CreateChecksum  (query_runner.go:73-116)                                *)
(* sha256 is taken as injective: a fingerprint is the byte stream written. *)
(***************************************************************************)
\* lines 80-82
SortTables(tables) ==
    SeqMap(LAMBDA pr : pr[2],
           SortByKey(SeqMap(LAMBDA t : <<DbTableString(t), t>>, tables)))

\* lines 90-92
SortColumns(columns) ==
    SeqMap(LAMBDA pr : pr[2],
           SortByKey(SeqMap(LAMBDA c : <<c.name, c>>, columns)))

\* lines 103-106
SortCcls(ccls) ==
    SeqMap(LAMBDA pr : pr[2],
           SortByKey(SeqMap(LAMBDA c :
               <<JoinSP(<<c.TableName, c.ColumnName, PartyStr(c.PartyCode)>>),
                 c>>, ccls)))

\* lines 84, 93-96 for one table
TableSchemaBytes(tableName, is) ==
    DbTableString(tableName) \o
    Concat(SeqMap(LAMBDA c : c.name \o c.typeDesc,
                  SortColumns(TableByName(is, tableName)[1].columns)))

\* lines 97-111 for one table
CclBytes(tableName, ccls) ==
    Concat(SeqMap(LAMBDA c : c.TableName \o c.ColumnName
                             \o VisString(c.Visibility),
                  SortCcls(SelectSeq(ccls, LAMBDA c :
                      c.TableName = tableName
                      /\ c.DatabaseName = ProjectID))))

\* lines 77-113 for one party
ChecksumFor(p, info, is, ccls) ==
    LET tables == SortTables(info.party2Tables[p])
    IN [TableSchema |->
            Concat(SeqMap(LAMBDA t : TableSchemaBytes(t, is), tables)),
        CCL |-> Concat(SeqMap(LAMBDA t : CclBytes(t, ccls), tables))]

\* line 86: a table of the party that the info schema does not have
ChecksumLookupFails(dataParties, info, is) ==
    \E i \in 1..Len(dataParties) :
        \E j \in 1..Len(info.party2Tables[dataParties[i]]) :
            TableByName(is, info.party2Tables[dataParties[i]][j]) = <<>>

\* the checksumMap, a function on the data parties
CreateChecksum(dataParties, info, is, ccls) ==
    IF ChecksumLookupFails(dataParties, info, is)
    THEN [map |-> <<>>, err |-> Err("ErrTableByName")]
    ELSE [map |-> [p \in SeqToSet(dataParties) |->
                      ChecksumFor(p, info, is, ccls)],
          err |-> NoErr]

(***************************************************************************)
(* Prepare / prepareData  (query_runner.go:170-269)                        *)
(***************************************************************************)
\* What the collaborators of one Prepare call do: the call that fails, if
\* any, and the tables the peers push when they are asked.
PrepareFaults == {"none", "get1", "members", "ask", "get2", "parse",
                  "partyInfo", "ccl", "finish"}

\* the tables other parties own and can push
PeerTables == {T_B}

\* a call that fails before the peers have answered leaves nothing pushed
PrepareOutcomes ==
    {o \in [fault : PrepareFaults, pushed : SUBSET PeerTables] :
        o.fault \in {"get1", "members", "ask"} => o.pushed = {}}

\* txn.GetTableMetasByTableNames: the metas found, and the names not found
FoundTables(names, present, bType) ==
    SeqMap(LAMBDA n : TableMetaOf(n, bType),
           SelectSeq(names, LAMBDA n : n \in present))

NotFoundTables(names, present) ==
    SelectSeq(names, LAMBDA n : n \notin present)

\* txn.ListColumnConstraints and lines 239-247
ColumnControls(names, workParties, bPriv) ==
    SeqMap(LAMBDA cp : [PartyCode |-> cp.dest,
                        Visibility |-> VisibilityOf(cp.priv),
                        DatabaseName |-> ProjectID,
                        TableName |-> cp.table,
                        ColumnName |-> cp.column],
           SelectSeq(ColumnPrivsOf(bPriv), LAMBDA cp :
               cp.table \in SeqToSet(names)
               /\ cp.dest \in SeqToSet(workParties)))

\* translator.NewEnginesInfo(partyInfo, party2Tables), lines 205-214, 235
EnginesInfoOf(tables, workParties) ==
    [parties |-> workParties,
     party2Tables |-> [p \in Parties |->
         SeqMap(LAMBDA t : t.name,
                SelectSeq(tables, LAMBDA t : t.owner = p))]]

\* lines 59-63
Clear_Keep(r) == r

Clear(r) == [r EXCEPT !.info = None, !.is = None, !.ccls = <<>>]

\* line 181: peers are asked for the tables not found on the first
\* preparation only
AskPeers(notFound, prepareAgain) == notFound # <<>> /\ ~prepareAgain

\* What one call of prepareData leaves and returns: the runner state, the
\* two party lists and the error, the tables the store holds afterwards,
\* the number of times each transaction it opened was finished, and the
\* names the last resolution reported not found.
PrepareResult(r, dataParties, workParties, err, present, txns, notFound) ==
    [r |-> r, dataParties |-> dataParties, workParties |-> workParties,
     err |-> err, present |-> present, txns |-> txns,
     notFoundLast |-> notFound]

\* lines 231-248, with r.tables = tables and both party lists computed
prepareDataInfo(r, names, tables, dataParties, workParties, bPriv, o, present, txns, notFound) ==
    IF o.fault = "partyInfo"
    THEN \* line 233
         PrepareResult([r EXCEPT !.tables = tables], dataParties, workParties,
                       Err("ErrGetPartyInfo"), present, txns, notFound)
    ELSE IF o.fault = "ccl"
    THEN \* line 238: the error is not looked at, no constraint is added
         PrepareResult([r EXCEPT !.tables = tables,
                                 !.info = Some(EnginesInfoOf(tables,
                                                             workParties))],
                       dataParties, workParties,
                       Err("ErrListColumnConstraints"), present, txns,
                       notFound)
    ELSE \* line 248; the deferred Finish may fail to commit
         PrepareResult([r EXCEPT !.tables = tables,
                                 !.info = Some(EnginesInfoOf(tables,
                                                             workParties)),
                                 !.ccls = r.ccls \o
                                     ColumnControls(names, workParties,
                                                    bPriv)],
                       dataParties, workParties,
                       IF o.fault = "finish" THEN Err("ErrFinish") ELSE NoErr,
                       present, txns, notFound)

\* lines 228-230: workParties from dataParties and the issuer
prepareDataParties(r, names, tables, dataParties, issuer, bPriv, o, present, txns, notFound) ==
    prepareDataInfo(r, names, tables, dataParties,
                    SliceDeDup(Append(dataParties, issuer)), bPriv, o,
                    present, txns, notFound)

\* lines 203-228, with r.tables = tables
prepareDataTables(r, names, tables, issuer, bPriv, o, present, txns, notFound) ==
    IF o.fault = "parse" /\ tables # <<>>
    THEN \* lines 216-224
         PrepareResult([r EXCEPT !.tables = tables], <<>>, <<>>,
                       Err("ErrParseTable"), present, txns, notFound)
    ELSE prepareDataParties(r, names, tables,
                            SliceDeDup(SeqMap(LAMBDA t : t.owner, tables)),
                            issuer, bPriv, o, present, txns, notFound)

DeferredTxn_FirstOpened(txns) == 1

\* lines 173-175: the deferred closure reads the variable txn when the
\* function returns, so it finishes the transaction opened last
DeferredTxn(txns) == Len(txns)

\* How often each transaction of one call has been finished when the call
\* has returned.  Line 172 opens the first; when the peers are asked,
\* line 188 finishes it and line 192 opens the second; the deferred closure
\* then finishes one of them.
FinishedTxns(asked) ==
    [i \in 1..(IF asked THEN 2 ELSE 1) |->
        (IF asked /\ i = 1 THEN 1 ELSE 0)
        + (IF i = DeferredTxn(IF asked THEN <<1, 0>> ELSE <<0>>)
           THEN 1 ELSE 0)]

\* line 189: the tables the store holds once the peers were asked
PresentAfterAsk(names, present, o) ==
    IF o.fault = "ask"
    THEN present
    ELSE present \cup (o.pushed \cap SeqToSet(NotFoundTables(names, present)))

\* lines 182-202: the block entered when tables are missing on the first
\* preparation; present2 is what the store holds after the peers were asked
prepareDataAsk(r, names, present, present2, bType, bPriv, issuer, o) ==
    IF o.fault = "members"
    THEN \* line 184
         PrepareResult([r EXCEPT !.tables = FoundTables(names, present,
                                                        bType)],
                       <<>>, <<>>, Err("ErrGetProjectMembers"), present,
                       FinishedTxns(FALSE), NotFoundTables(names, present))
    ELSE IF o.fault = "get2"
    THEN \* line 197
         PrepareResult([r EXCEPT !.tables = <<>>], <<>>, <<>>,
                       Err("ErrGetTableMetas"), present2, FinishedTxns(TRUE),
                       <<>>)
    ELSE IF NotFoundTables(names, present2) # <<>>
    THEN \* line 201
         PrepareResult([r EXCEPT !.tables = FoundTables(names, present2,
                                                        bType)],
                       <<>>, <<>>,
                       [kind |-> "TableNotFound",
                        detail |-> NotFoundTables(names, present2)],
                       present2, FinishedTxns(TRUE),
                       NotFoundTables(names, present2))
    ELSE prepareDataTables(r, names, FoundTables(names, present2, bType),
                           issuer, bPriv, o, present2, FinishedTxns(TRUE), <<>>)

\* lines 170-249
prepareData(r, names, prepareAgain, present, bType, bPriv, issuer, o) ==
    IF o.fault = "get1"
    THEN \* line 178
         PrepareResult([r EXCEPT !.tables = <<>>], <<>>, <<>>,
                       Err("ErrGetTableMetas"), present, FinishedTxns(FALSE),
                       <<>>)
    ELSE IF AskPeers(NotFoundTables(names, present), prepareAgain)
    THEN prepareDataAsk(r, names, present,
                        PresentAfterAsk(names, present, o), bType, bPriv,
                        issuer, o)
    ELSE prepareDataTables(r, names, FoundTables(names, present, bType),
                           issuer, bPriv, o, present, FinishedTxns(FALSE),
                           NotFoundTables(names, present))

\* lines 262-266: the info schema is built from r.tables
PrepareInfoSchema(d, c) == [d EXCEPT !.r.is = c.is, !.err = c.err]

\* lines 258-268, d being what prepareData left and returned
PrepareAfterData(d) ==
    IF d.err # NoErr
    THEN d
    ELSE PrepareInfoSchema(d, CreateInfoSchema(d.r.tables))

\* lines 251-269
Prepare(r, names, prepareAgain, present, bType, bPriv, issuer, o) ==
    PrepareAfterData(prepareData(Clear(r), names, prepareAgain, present,
                                 bType, bPriv, issuer, o))

(***************************************************************************)
(* checkChecksum  (query_runner.go:441-457)                                *)
(***************************************************************************)
\* Checksums.CompareChecksumFor(p): an error when a side is not stored,
\* else which of the two hashes differ
CompareChecksumFor(p, local, remote) ==
    IF local[p] = None \/ remote[p] = None
    THEN "ERR"
    ELSE LET l == local[p][1]
             m == remote[p][1]
         IN IF l.TableSchema = m.TableSchema
            THEN IF l.CCL = m.CCL THEN "EQUAL" ELSE "CCL_NOT_EQUAL"
            ELSE IF l.CCL = m.CCL
                 THEN "TABLE_SCHEMA_NOT_EQUAL"
                 ELSE "TABLE_CCL_NOT_EQUAL"

\* the error checkChecksum returns for the first party, in the order of
\* DataParties, whose comparison fails
ChecksumErrorAt(dps, local, remote, bad) ==
    IF bad = {}
    THEN NoErr
    ELSE LET i == CHOOSE k \in bad : \A m \in bad : k <= m
         IN IF CompareChecksumFor(dps[i], local, remote) = "ERR"
            THEN [kind |-> "ErrCompareChecksum", detail |-> <<dps[i]>>]
            ELSE [kind |-> "ChecksumNotEqual", detail |-> <<dps[i]>>]

checkChecksum_SkipIssuer(dps, local, remote) ==
    ChecksumErrorAt(dps, local, remote,
        {i \in 1..Len(dps) :
            /\ dps[i] # SelfParty
            /\ dps[i] # execIssuer
            /\ CompareChecksumFor(dps[i], local, remote) # "EQUAL"})

checkChecksum_IgnoreResult(dps, local, remote) ==
    ChecksumErrorAt(dps, local, remote,
        {i \in 1..Len(dps) :
            /\ dps[i] # SelfParty
            /\ CompareChecksumFor(dps[i], local, remote) = "ERR"})

checkChecksum(dps, local, remote) ==
    ChecksumErrorAt(dps, local, remote,
        {i \in 1..Len(dps) :
            /\ dps[i] # SelfParty
            /\ CompareChecksumFor(dps[i], local, remote) # "EQUAL"})

(***************************************************************************)
(* CreateExecutor  (query_runner.go:362-439)                               *)
(***************************************************************************)
\* the compiled plans the compiler may return: party list, the parties
\* that have a subgraph, output columns
Plans ==
    [parties : {<<1, 2>>, <<2, 1>>},
     subGraphs : {{1, 2}, {2}},
     columns : {<<COL_A>>}]

\* the plans the compiler returns for the query of one session: its party
\* list is that of the query, the subgraph of this party may be missing
RunnerPlans == {plan \in Plans : plan.parties = <<1, 2>>}

RankOf_FromOne(i) == i

\* line 383: Rank is the index of the party in plan.Parties, from 0
RankOf(i) == i - 1

\* epKnown, pkKnown: the parties whose endpoint / public key resolves
CreateExecutor(plan, epKnown, pkKnown, isIssuer) ==
    LET bad == {i \in 1..Len(plan.parties) :
                   plan.parties[i] \notin epKnown
                   \/ plan.parties[i] \notin pkKnown}
    IN IF bad # {}
       THEN \* lines 372-379
            [executor |-> None,
             err |-> LET i == CHOOSE k \in bad : \A m \in bad : k <= m
                     IN IF plan.parties[i] \notin epKnown
                        THEN Err("ErrGetEndpoint")
                        ELSE Err("ErrGetPubKey")]
       ELSE IF SelfParty \notin plan.subGraphs
       THEN \* line 391
            [executor |-> None, err |-> Err("ErrNoGraph")]
       ELSE IF SelfParty \notin pkKnown
       THEN \* line 408
            [executor |-> None, err |-> Err("ErrGetPubKey")]
       ELSE [executor |-> Some(
                [roster |-> [i \in 1..Len(plan.parties) |->
                                [code |-> plan.parties[i],
                                 rank |-> RankOf(i)]],
                 planReqs |-> {SelfParty},
                 outputNames |-> IF isIssuer THEN plan.columns ELSE <<>>]),
             err |-> NoErr]

(***************************************************************************)
(* The runner of one session and its environment                           *)
(***************************************************************************)
RunnerState ==
    [tables |-> rTables, info |-> rInfo, is |-> rIs, ccls |-> rCcls]

\* Session.IsIssuer()
IsIssuer == execIssuer = SelfParty

PrepareRecord(res, prepareAgain) ==
    [prepareAgain |-> prepareAgain, err |-> res.err,
     notFoundLast |-> res.notFoundLast, txns |-> res.txns,
     dataParties |-> res.dataParties, workParties |-> res.workParties]

QueryNames == {<<T_A, T_B>>, <<T_B, T_A>>}

Issuers == {1, 2}

RunnerInit ==
    /\ stPresent = {T_A}
    /\ stBType = "int"
    /\ stBPriv = "plaintext"
    /\ stDrifts = 0
    /\ qNames \in QueryNames
    /\ execIssuer \in Issuers
    /\ asyncMode \in BOOLEAN
    /\ cbPending = {}
    /\ ctxCanceled = FALSE
    /\ execDataParties = <<>>
    /\ localChecksums = [p \in Parties |-> None]
    /\ remoteChecksums = [p \in Parties |-> None]
    /\ persisted = 0
    /\ resultLog = <<>>
    /\ rTables = <<>>
    /\ rInfo = None
    /\ rIs = None
    /\ rCcls = <<>>
    /\ rPrepareAgain = FALSE
    /\ pCalls = 0
    /\ pLast = [prepareAgain |-> FALSE, err |-> NoErr,
                notFoundLast |-> <<>>, txns |-> <<>>,
                dataParties |-> <<>>, workParties |-> <<>>]
    /\ eRuns = 0
    /\ ePc = "idle"
    /\ eReprepared = FALSE
    /\ ePlan = None
    /\ eExecutor = None
    /\ eErr = NoErr
    /\ eLog = <<>>

RunnerOff ==
    /\ RunnerInit
    /\ qNames = <<T_A, T_B>>
    /\ execIssuer = 1
    /\ asyncMode = FALSE
    /\ cbPending = {}
    /\ ctxCanceled = FALSE

\* A fatal error of Prepare aborts the session: nothing more is done with
\* its runner.
Alive == pLast.err = NoErr

\* ---- the metadata store changes under the runner ----
\* Execute reads the store only in its first step, so a change made while
\* Execute runs has the effect of one made after it returned.
Drift ==
    /\ ePc = "idle"
    /\ Alive
    /\ stDrifts < MaxDrift
    /\ stDrifts' = stDrifts + 1

\* a table's metadata arrives (its owner grants it to this party)
StoreAddTable ==
    /\ Drift
    /\ \E t \in PeerTables \ stPresent : stPresent' = stPresent \cup {t}
    /\ UNCHANGED <<stBType, stBPriv, qvars, rvars, pvars, evars>>
    /\ RunnerFrame

\* a table is dropped or revoked by its owner
StoreDropTable ==
    /\ Drift
    /\ \E t \in PeerTables \cap stPresent : stPresent' = stPresent \ {t}
    /\ UNCHANGED <<stBType, stBPriv, qvars, rvars, pvars, evars>>
    /\ RunnerFrame

\* the owner of T_B changes the type of COL_B
StoreChangeColumnType ==
    /\ Drift
    /\ stBType' = IF stBType = "int" THEN "string" ELSE "int"
    /\ UNCHANGED <<stPresent, stBPriv, qvars, rvars, pvars, evars>>
    /\ RunnerFrame

\* the owner of T_B changes what party 1 may see of COL_B
StoreChangeCcl ==
    /\ Drift
    /\ stBPriv' = IF stBPriv = "plaintext" THEN "encrypted_only"
                  ELSE "plaintext"
    /\ UNCHANGED <<stPresent, stBType, qvars, rvars, pvars, evars>>
    /\ RunnerFrame

\* ---- the steps the services take with the runner before Execute ----
\* line 69-71
SetPrepareAgain ==
    /\ ePc = "idle"
    /\ Alive
    /\ ~rPrepareAgain
    /\ rPrepareAgain' = TRUE
    /\ UNCHANGED <<stvars, qvars, rTables, rInfo, rIs, rCcls, pvars, evars>>
    /\ RunnerFrame

\* Prepare is called; on success the caller keeps the data parties in
\* ExecuteInfo.DataParties
CallPrepare ==
    /\ ePc = "idle"
    /\ Alive
    /\ pCalls < MaxPrepares
    /\ pCalls' = pCalls + 1
    /\ \E o \in PrepareOutcomes :
       \E res \in {Prepare(RunnerState, qNames, rPrepareAgain, stPresent,
                           stBType, stBPriv, execIssuer, o)} :
           /\ rTables' = res.r.tables
           /\ rInfo' = res.r.info
           /\ rIs' = res.r.is
           /\ rCcls' = res.r.ccls
           /\ stPresent' = res.present
           /\ pLast' = PrepareRecord(res, rPrepareAgain)
           /\ execDataParties' = IF res.err = NoErr THEN res.dataParties
                                 ELSE execDataParties
    /\ UNCHANGED <<stBType, stBPriv, stDrifts, qNames, execIssuer, asyncMode, cbPending, ctxCanceled,
                   localChecksums, remoteChecksums, persisted, resultLog,
                   rPrepareAgain, evars>>
    /\ RunnerFrame

\* SaveLocalChecksum for every entry of a checksum map
SaveLocalChecksums(map) ==
    [p \in Parties |->
        IF p \in DOMAIN map THEN Some(map[p]) ELSE localChecksums[p]]

\* CreateChecksum is called on a prepared runner and the result is saved
CallCreateChecksum ==
    /\ ePc = "idle"
    /\ Alive
    /\ rInfo # None
    /\ rIs # None
    /\ \E cs \in {CreateChecksum(execDataParties, rInfo[1], rIs[1], rCcls)} :
           localChecksums' = IF cs.err = NoErr
                             THEN SaveLocalChecksums(cs.map)
                             ELSE localChecksums
    /\ UNCHANGED <<stvars, qNames, execIssuer, asyncMode, cbPending, ctxCanceled, execDataParties,
                   remoteChecksums, persisted, resultLog, rvars, pvars,
                   evars>>
    /\ RunnerFrame

\* the checksum party p computes for itself from the metadata as it is now
PeerChecksumOf(p, r) == ChecksumFor(p, r.info[1], r.is[1], r.ccls)

PeerChecksum(p) ==
    PeerChecksumOf(p,
        Prepare([tables |-> <<>>, info |-> None, is |-> None, ccls |-> <<>>],
                qNames, TRUE, stPresent, stBType, stBPriv, execIssuer,
                [fault |-> "none", pushed |-> {}]).r)

\* SaveRemoteChecksum: the checksum of a data party arrives
SaveRemoteChecksum ==
    /\ ePc = "idle"
    /\ Alive
    /\ \E p \in SeqToSet(execDataParties) \ {SelfParty} :
        remoteChecksums' =
            [remoteChecksums EXCEPT ![p] = Some(PeerChecksum(p))]
    /\ UNCHANGED <<stvars, qNames, execIssuer, asyncMode, cbPending, ctxCanceled, execDataParties,
                   localChecksums, persisted, resultLog, rvars, pvars,
                   evars>>
    /\ RunnerFrame

\* ---- Execute (query_runner.go:459-530) ----
\* ePlan and eExecutor are the locals compiledPlan and executor of Execute:
\* they are gone when Execute has returned.
Finished(err, log) ==
    /\ ePc' = "done"
    /\ eErr' = err
    /\ eLog' = log

\* lines 461-478, the fast path: nothing to do before compiling
ExecuteBeginFast ==
    /\ ePc = "idle"
    /\ Alive
    /\ eRuns < MaxExecutes
    /\ eRuns' = eRuns + 1
    /\ ~rPrepareAgain
    /\ ePc' = "compile"
    /\ eReprepared' = FALSE
    /\ ePlan' = None
    /\ eExecutor' = None
    /\ eErr' = NoErr
    /\ eLog' = <<>>
    /\ UNCHANGED <<stvars, qvars, rvars, pvars>>
    /\ RunnerFrame

\* lines 461-478, prepareAgain is set: prepare again, recompute and save
\* the local checksums, compare them with the remote ones
ExecuteBeginAgain ==
    /\ ePc = "idle"
    /\ Alive
    /\ eRuns < MaxExecutes
    /\ eRuns' = eRuns + 1
    /\ pCalls' = pCalls + 1
    /\ rPrepareAgain
    /\ eReprepared' = TRUE
    /\ ePlan' = None
    /\ eExecutor' = None
    /\ \E o \in PrepareOutcomes :
       \E res \in {Prepare(RunnerState, qNames, rPrepareAgain, stPresent,
                           stBType, stBPriv, execIssuer, o)} :
           /\ rTables' = res.r.tables
           /\ rInfo' = res.r.info
           /\ rIs' = res.r.is
           /\ rCcls' = res.r.ccls
           /\ stPresent' = res.present
           /\ pLast' = PrepareRecord(res, rPrepareAgain)
           /\ IF res.err # NoErr
              THEN \* line 464
                   /\ Finished(res.err, <<"prepare">>)
                   /\ UNCHANGED localChecksums
              ELSE \E cs \in {CreateChecksum(execDataParties, res.r.info[1],
                                             res.r.is[1], res.r.ccls)} :
                   IF cs.err # NoErr
                   THEN \* line 468
                        /\ Finished(cs.err, <<"prepare", "checksum">>)
                        /\ UNCHANGED localChecksums
                   ELSE \E saved \in {SaveLocalChecksums(cs.map)} :
                        \E chk \in {checkChecksum(execDataParties, saved,
                                                  remoteChecksums)} :
                        /\ localChecksums' = saved
                        /\ IF chk # NoErr
                           THEN \* line 476
                                Finished(chk,
                                         <<"prepare", "checksum", "check">>)
                           ELSE /\ ePc' = "compile"
                                /\ eErr' = NoErr
                                /\ eLog' = <<"prepare", "checksum", "check">>
    /\ UNCHANGED <<stBType, stBPriv, stDrifts, qNames, execIssuer, asyncMode, cbPending, ctxCanceled,
                   execDataParties, remoteChecksums, persisted, resultLog,
                   rPrepareAgain>>
    /\ RunnerFrame

\* lines 480-485: the compile request is built from r.tables and r.ccls
\* and handed to the compiler
ExecuteCompile ==
    /\ ePc = "compile"
    /\ \/ /\ Finished(Err("ErrCompile"), Append(eLog, "compile"))
          /\ UNCHANGED ePlan
       \/ \E plan \in RunnerPlans :
          /\ ePlan' = Some(plan)
          /\ ePc' = "executor"
          /\ eLog' = Append(eLog, "compile")
          /\ UNCHANGED eErr
    /\ UNCHANGED <<stvars, qvars, rvars, pvars, eRuns, eReprepared,
                   eExecutor>>
    /\ RunnerFrame

AfterExecutor_NeverPersist(isIssuer) == "engine"

\* line 495: only the issuer persists the session before the engine runs
AfterExecutor(isIssuer) == IF isIssuer THEN "persist" ELSE "engine"

\* the parties whose endpoint (ep) and public key (pk) resolve when the
\* executor is created: all of them, or all but one
Resolutions ==
    {[ep |-> Parties, pk |-> Parties],
     [ep |-> Parties \ {2}, pk |-> Parties],
     [ep |-> Parties, pk |-> Parties \ {2}],
     [ep |-> Parties, pk |-> Parties \ {SelfParty}]}

\* lines 489-494
ExecuteCreateExecutor ==
    /\ ePc = "executor"
    /\ \E known \in Resolutions :
        \E ce \in {CreateExecutor(ePlan[1], known.ep, known.pk, IsIssuer)} :
           IF ce.err # NoErr
           THEN /\ Finished(ce.err, Append(eLog, "executor"))
                /\ ePlan' = None
                /\ eExecutor' = None
           ELSE /\ ePc' = AfterExecutor(IsIssuer)
                /\ eExecutor' = ce.executor
                /\ eLog' = Append(eLog, "executor")
                /\ UNCHANGED <<eErr, ePlan>>
    /\ UNCHANGED <<stvars, qvars, rvars, pvars, eRuns, eReprepared>>
    /\ RunnerFrame

\* lines 495-502: the execIssuer persists the session before the engine runs
ExecutePersist ==
    /\ ePc = "persist"
    /\ \/ /\ Finished(Err("ErrPersist"), eLog)
          /\ ePlan' = None
          /\ eExecutor' = None
          /\ UNCHANGED persisted
       \/ /\ persisted' = persisted + 1
          /\ ePc' = "engine"
          /\ eLog' = Append(eLog, "persist")
          /\ UNCHANGED <<eErr, ePlan, eExecutor>>
    /\ UNCHANGED <<stvars, qNames, execIssuer, asyncMode, cbPending, ctxCanceled, execDataParties,
                   localChecksums, remoteChecksums, resultLog, rvars, pvars,
                   eRuns, eReprepared>>
    /\ RunnerFrame

WritesResult_Always(async) == TRUE

\* line 514: Execute stores the result only when the engines ran in sync
\* mode
WritesResult(async) == ~async

\* an assignment of the session's result slot: who made it, in which run
ResultWrite(by, run) == [by |-> by, run |-> run]

\* lines 504-529: the engine is invoked; its reply decides the outcome.  In
\* async mode an accepted plan reports back later (line 527).
ExecuteRun ==
    /\ ePc = "engine"
    /\ ePlan' = None
    /\ eExecutor' = None
    /\ \E reply \in {"err", "status", "ok"} :
        IF reply = "err"
        THEN \* line 506
             /\ Finished(Err("ErrRunExecutionPlan"), Append(eLog, "engine"))
             /\ UNCHANGED <<resultLog, cbPending>>
        ELSE IF reply = "status"
        THEN \* line 509
             /\ Finished(Err("ErrStatus"), Append(eLog, "engine"))
             /\ UNCHANGED <<resultLog, cbPending>>
        ELSE /\ cbPending' = IF asyncMode THEN cbPending \cup {eRuns}
                             ELSE cbPending
             /\ IF WritesResult(asyncMode)
                THEN /\ Finished(NoErr, Append(eLog, "engine") \o <<"result">>)
                     /\ resultLog' =
                            Append(resultLog, ResultWrite("execute", eRuns))
                ELSE /\ Finished(NoErr, Append(eLog, "engine"))
                     /\ UNCHANGED resultLog
    /\ UNCHANGED <<stvars, qNames, execIssuer, asyncMode, ctxCanceled,
                   execDataParties,
                   localChecksums, remoteChecksums, persisted, rvars, pvars,
                   eRuns, eReprepared>>
    /\ RunnerFrame

\* the callback handler of the engine: in async mode the result of a run
\* is set when the engine reports back, at any later time
EngineCallback ==
    /\ \E n \in cbPending :
        /\ cbPending' = cbPending \ {n}
        /\ resultLog' = Append(resultLog, ResultWrite("callback", n))
    /\ UNCHANGED <<stvars, qNames, execIssuer, asyncMode, ctxCanceled,
                   execDataParties,
                   localChecksums, remoteChecksums, persisted, rvars, pvars,
                   evars>>
    /\ RunnerFrame

\* the steps of Execute that come before the engine is invoked
BeforeEngine == {"compile", "executor", "persist", "engine"}

\* Session.Ctx is canceled while Execute is under way and the engine has
\* not been invoked
CancelCtx ==
    /\ ePc \in BeforeEngine
    /\ ~ctxCanceled
    /\ ctxCanceled' = TRUE
    /\ UNCHANGED <<stvars, qNames, execIssuer, asyncMode, cbPending,
                   execDataParties, localChecksums, remoteChecksums,
                   persisted, resultLog, rvars, pvars, evars>>
    /\ RunnerFrame

\* ---- DryRun (query_runner.go:551-564) ----
DryRunCompiles_Always(chk) == TRUE

\* lines 553-555: the compile request is built only when checkChecksum
\* returned no error
DryRunCompiles(chk) == chk = NoErr

\* lines 551-564: the consistency check, then an attempt to compile whose
\* plan is dropped
DryRun ==
    /\ ePc = "idle"
    /\ Alive
    /\ ePc' = "dryDone"
    /\ eReprepared' = FALSE
    /\ ePlan' = None
    /\ eExecutor' = None
    /\ \E chk \in {checkChecksum(execDataParties, localChecksums,
                                  remoteChecksums)} :
        /\ eLog' = IF DryRunCompiles(chk) THEN <<"check", "compile">>
                   ELSE <<"check">>
        /\ IF chk # NoErr
           THEN eErr' = chk
           ELSE \E compiled \in BOOLEAN :
                eErr' = IF compiled THEN NoErr ELSE Err("ErrCompile")
    /\ UNCHANGED <<stvars, qvars, rvars, pvars, eRuns>>
    /\ RunnerFrame

\* DryRun has returned and its caller goes on
DryRunReturn ==
    /\ ePc = "dryDone"
    /\ ePc' = "idle"
    /\ eErr' = NoErr
    /\ eLog' = <<>>
    /\ UNCHANGED <<stvars, qvars, rvars, pvars, eRuns, eReprepared, ePlan,
                   eExecutor>>
    /\ RunnerFrame

\* Execute has returned without an error and its caller goes on
ExecuteReturn ==
    /\ ePc = "done"
    /\ eErr = NoErr
    /\ ePc' = "idle"
    /\ eReprepared' = FALSE
    /\ ePlan' = None
    /\ eExecutor' = None
    /\ eErr' = NoErr
    /\ eLog' = <<>>
    /\ UNCHANGED <<stvars, qvars, rvars, pvars, eRuns>>
    /\ RunnerFrame

(***************************************************************************)
(* Specifications                                                          *)
(***************************************************************************)
NextStorageGc ==
    \/ \E r \in Replicas : StorageGcStart(r)
    \/ \E r \in Replicas : StorageGcTick(r)
    \/ \E r \in Replicas : StorageGcScanDone(r)
    \/ ClockTick

NextSessionGc ==
    \/ InsertSession
    \/ CancelSession
    \/ SessionGcTick
    \/ SessionGcCheck
    \/ SessionGcDelete

NextRunner ==
    \/ StoreAddTable
    \/ StoreDropTable
    \/ StoreChangeColumnType
    \/ StoreChangeCcl
    \/ SetPrepareAgain
    \/ CallPrepare
    \/ CallCreateChecksum
    \/ SaveRemoteChecksum
    \/ ExecuteBeginFast
    \/ ExecuteBeginAgain
    \/ ExecuteCompile
    \/ ExecuteCreateExecutor
    \/ ExecutePersist
    \/ ExecuteRun
    \/ EngineCallback
    \/ ExecuteReturn

(***************************************************************************)
(* CreateChecksum on what two brokers hold for one party's tables          *)
(* (query_runner.go:73-116)                                                *)
(***************************************************************************)
\* no function is under study in the other specifications
FnOff ==
    /\ fnArgs = None
    /\ fnResult = None

\* the data party whose tables are summed
ChecksumParty == 2

\* the sequences without repetition of at most n elements of a set
SeqsWithoutRepetition(set, n) ==
    UNION {{s \in [1..k -> set] :
               \A i \in 1..k : \A j \in 1..k : s[i] = s[j] => i = j} :
           k \in 0..n}

\* r.info.GetTablesByParty(p), line 78, in the order it comes
ChecksumTableOrders == {<<T_A, T_B>>, <<T_B, T_A>>}

\* the columns of a table of r.is, line 89, in the order they come
ChecksumColumnsOf(tableName) ==
    IF tableName = T_A
    THEN {<<[name |-> COL_A, typeDesc |-> TypeDesc("int")]>>}
    ELSE {cols \in SeqsWithoutRepetition(
                     [name : {COL_A, COL_B},
                      typeDesc : {TypeDesc("int"), TypeDesc("string")}], 2) :
             /\ Len(cols) = 2
             /\ cols[1].name # cols[2].name
             /\ \A i \in 1..2 :
                    cols[i].name = COL_A => cols[i].typeDesc = TypeDesc("int")}

ChecksumSchemas ==
    {<<[name |-> T_A, columns |-> ca], [name |-> T_B, columns |-> cb]>> :
        ca \in ChecksumColumnsOf(T_A), cb \in ChecksumColumnsOf(T_B)}

\* the entries r.ccls may hold, lines 239-247: two of them are for the same
\* table, column and party
ChecksumCclPool ==
    {[PartyCode |-> cp.dest, Visibility |-> cp.vis,
      DatabaseName |-> ProjectID, TableName |-> cp.table,
      ColumnName |-> cp.column] :
        cp \in {[table |-> T_B, column |-> COL_B, dest |-> 1,
                 vis |-> "PLAINTEXT"],
                [table |-> T_B, column |-> COL_B, dest |-> 1,
                 vis |-> "ENCRYPTED_ONLY"],
                [table |-> T_B, column |-> COL_B, dest |-> 3,
                 vis |-> "PLAINTEXT"],
                [table |-> T_A, column |-> COL_A, dest |-> 2,
                 vis |-> "PLAINTEXT"]}}

\* what one broker holds when it calls CreateChecksum: r.info, r.is, r.ccls
ChecksumViews ==
    [tables : ChecksumTableOrders,
     is : ChecksumSchemas,
     ccls : SeqsWithoutRepetition(ChecksumCclPool, MaxCcls) \ {<<>>}]

\* r.info with the tables of the data party
ChecksumInfoOf(tables) ==
    [parties |-> <<SelfParty, ChecksumParty>>,
     party2Tables |-> [p \in Parties |->
                          IF p = ChecksumParty THEN tables ELSE <<>>]]

\* CreateChecksum of one broker, read at the data party
ChecksumOfView(v) ==
    CreateChecksum(<<ChecksumParty>>, ChecksumInfoOf(v.tables), v.is,
                   v.ccls).map[ChecksumParty]

InitChecksum ==
    /\ ExchOff /\ GcOff /\ SgcInit /\ RunnerOff
    /\ fnArgs \in [local : ChecksumViews, remote : ChecksumViews]
    /\ fnResult = None

\* both brokers compute the checksum of the data party
CreateChecksums ==
    /\ fnResult = None
    /\ fnResult' = Some([local |-> ChecksumOfView(fnArgs.local),
                         remote |-> ChecksumOfView(fnArgs.remote)])
    /\ UNCHANGED fnArgs
    /\ FnFrame

NextChecksum == CreateChecksums

SpecChecksum == InitChecksum /\ [][NextChecksum]_vars

(***************************************************************************)
(* CreateExecutor on the plans a compiler may hand it                      *)
(* (query_runner.go:362-439)                                               *)
(***************************************************************************)
\* compiled plans: any party list without repetition, any set of parties
\* with a subgraph
ExecutorPlans ==
    [parties : SeqsWithoutRepetition(Parties, MaxPlanParties),
     subGraphs : SUBSET Parties,
     columns : {<<COL_A>>}]

InitCreateExecutor ==
    /\ ExchOff /\ GcOff /\ SgcInit /\ RunnerOff
    /\ fnArgs \in [plan : ExecutorPlans, ep : SUBSET Parties,
                   pk : SUBSET Parties, isIssuer : BOOLEAN]
    /\ fnResult = None

CallCreateExecutor ==
    /\ fnResult = None
    /\ fnResult' = Some(CreateExecutor(fnArgs.plan, fnArgs.ep, fnArgs.pk,
                                       fnArgs.isIssuer))
    /\ UNCHANGED fnArgs
    /\ FnFrame

NextCreateExecutor == CallCreateExecutor

SpecCreateExecutor == InitCreateExecutor /\ [][NextCreateExecutor]_vars

InitExchange == ExchInit /\ GcOff /\ SgcInit /\ RunnerOff /\ FnOff

SpecExchange ==
    InitExchange
    /\ [][NextExchange]_vars

InitStorageGc == ExchOff /\ GcInit /\ SgcInit /\ RunnerOff /\ FnOff

SpecStorageGc ==
    InitStorageGc
    /\ [][NextStorageGc]_vars

InitSessionGc == ExchOff /\ GcOff /\ SgcInit /\ RunnerOff /\ FnOff

SpecSessionGc ==
    InitSessionGc
    /\ [][NextSessionGc]_vars

InitRunner == ExchOff /\ GcOff /\ SgcInit /\ RunnerInit /\ FnOff

SpecRunner ==
    InitRunner /\ [][NextRunner]_vars

\* a session that is validated with DryRun instead of being executed
NextDryRun ==
    \/ StoreAddTable
    \/ StoreDropTable
    \/ StoreChangeColumnType
    \/ StoreChangeCcl
    \/ SetPrepareAgain
    \/ CallPrepare
    \/ CallCreateChecksum
    \/ SaveRemoteChecksum
    \/ DryRun
    \/ DryRunReturn

SpecDryRun ==
    InitRunner /\ [][NextDryRun]_vars

\* the runner in a session whose context may be canceled
NextRunnerCancel ==
    \/ NextRunner
    \/ CancelCtx

SpecRunnerCancel ==
    InitRunner /\ [][NextRunnerCancel]_vars

(***************************************************************************)
(* Properties of ExchangeJobInfo                                           *)
(***************************************************************************)
XAttempts == Len(xHist)

XSleeps == Cardinality({j \in 1..Len(xLog) : xLog[j] = "sleep"})

XRpcs == Cardinality({j \in 1..Len(xLog) : xLog[j] = "rpc"})

XLast == xHist[Len(xHist)]

\* C3: ExchangeJobInfo makes at most retryTimes attempts, makes a further
\* attempt only directly after a SESSION_NOT_FOUND response, sleeps exactly
\* once between two consecutive attempts and never after the last one; k
\* SESSION_NOT_FOUND responses followed by a status 0 response give the
\* caller that response after k+1 attempts and k sleeps.
C3_RetryBoundedAndPaced ==
    /\ XAttempts <= xRetryTimes
    /\ XRpcs = XAttempts
    /\ \A j \in 1..(Len(xHist) - 1) : xHist[j] = Code_SESSION_NOT_FOUND
    /\ Len(xLog) > 0 => xLog[1] = "rpc"
    /\ \A j \in 1..(Len(xLog) - 1) :
          /\ xLog[j] = "rpc" => xLog[j + 1] = "sleep"
          /\ xLog[j] = "sleep" => xLog[j + 1] = "rpc"
    /\ (xPc \in {"after", "done"} /\ Len(xLog) > 0)
          => xLog[Len(xLog)] = "rpc"
    /\ (xPc = "done" /\ Len(xHist) > 0 /\ XLast = Code_OK)
          => /\ xResult = [resp |-> [status |-> Code_OK], err |-> Nil]
             /\ XSleeps = XAttempts - 1

C3_Witness ==
    /\ xPc = "done"
    /\ xRetryTimes = 3
    /\ xHist = <<Code_SESSION_NOT_FOUND, Code_SESSION_NOT_FOUND, Code_OK>>
    /\ xLog = <<"rpc", "sleep", "rpc", "sleep", "rpc">>
    /\ xResult.err = Nil

\* C4: a delivered response without a status object makes ExchangeJobInfo
\* return an error, never that response as a success.
C4_NoStatusIsError ==
    (xPc = "done" /\ Len(xHist) > 0 /\ XLast = Nil)
        => (xResult.err # Nil /\ xResult.resp = NilResponse)

\* C5: a DATA_INCONSISTENCY status is returned as a response without an
\* error and ends the attempts; every other non-zero final status,
\* SESSION_NOT_FOUND after the last attempt included, gives an error and no
\* response.
C5_FinalStatusClassified ==
    /\ \A j \in 1..Len(xHist) :
          xHist[j] = Code_DATA_INCONSISTENCY => j = Len(xHist)
    /\ (xPc = "done" /\ Len(xHist) > 0 /\ XLast = Code_DATA_INCONSISTENCY)
          => xResult = [resp |-> [status |-> Code_DATA_INCONSISTENCY],
                        err |-> Nil]
    /\ (xPc = "done" /\ Len(xHist) > 0
            /\ XLast \in {Code_SESSION_NOT_FOUND, Code_OTHER})
          => (xResult.err # Nil /\ xResult.resp = NilResponse)
    /\ (xPc = "after" /\ Len(xHist) > 0 /\ XLast = Code_SESSION_NOT_FOUND)
          => XAttempts = xRetryTimes

C5_Witness ==
    /\ xPc = "done"
    /\ xHist = <<Code_SESSION_NOT_FOUND, Code_DATA_INCONSISTENCY>>
    /\ xResult.err = Nil
    /\ xResult.resp = [status |-> Code_DATA_INCONSISTENCY]

(***************************************************************************)
(* Properties of the GC lease and of StorageGc                             *)
(***************************************************************************)
\* C6: lease acquisition is mutually exclusive.  Two grants whose validity
\* overlaps go to the same owner; an attempt made against an unexpired row
\* of another owner fails, an attempt made with no row or an expired row
\* succeeds.
C6_LeaseMutualExclusion ==
    /\ \A g1, g2 \in gGrants :
          (g1.at <= g2.at /\ g2.at <= g1.expiry) => g1.owner = g2.owner
    /\ \A r \in Replicas :
          gLast[r].at >= 0 =>
             LET b == gLast[r].before
                 at == gLast[r].at
             IN /\ (b.exists /\ at <= b.expiry /\ b.owner # GcOwner(r))
                      => ~gLast[r].ok
                /\ (~b.exists \/ b.expiry < at) => gLast[r].ok

C6_Witness ==
    \E r1, r2 \in Replicas :
        /\ GcOwner(r1) # GcOwner(r2)
        /\ gLast[r1].ok
        /\ gLast[r2].at >= gLast[r1].at
        /\ ~gLast[r2].ok
        /\ gLast[r2].before.owner = GcOwner(r1)
        /\ gLease.owner = GcOwner(r1)

\* C7: no two replicas are in the expiry scan at the same time, and a
\* replica in the scan holds the unexpired lease.
C7_NoConcurrentScan ==
    /\ \A r1, r2 \in Replicas :
          (r1 # r2) => ~(gPc[r1] = "scan" /\ gPc[r2] = "scan")
    /\ \A r \in Replicas :
          gPc[r] = "scan" =>
             /\ gLease.exists
             /\ gLease.owner = GcOwner(r)
             /\ ~LeaseExpired(gLease)

(***************************************************************************)
(* Properties of SessionGc                                                 *)
(***************************************************************************)
\* C8: a tick deletes exactly the sessions reported canceled for its
\* snapshot; every other session, one inserted after the snapshot included,
\* stays in the registry; a failed lookup deletes nothing.
C8_DeletesExactlyCanceled ==
    /\ sDeleted \subseteq sReported
    /\ sReported \subseteq sIds
    /\ sSessions = (sIds \cup sInserted) \ sDeleted
    /\ sPc = "wait" => sDeleted = sReported
    /\ sLookupFailed => (sDeleted = {} /\ sReported = {})

C8_Witness ==
    /\ sPc = "wait"
    /\ sReported # {}
    /\ sDeleted = sReported
    /\ sIds \ sReported # {}
    /\ sInserted # {}
    /\ (sInserted \cap sCanceledDb) # {}
    /\ sInserted \subseteq sSessions

(***************************************************************************)
(* Properties of Execute and checkChecksum                                 *)
(***************************************************************************)
OtherDataParties == SeqToSet(execDataParties) \ {SelfParty}

BothStored(p) == localChecksums[p] # None /\ remoteChecksums[p] # None

SameChecksum(p) ==
    /\ localChecksums[p][1].TableSchema = remoteChecksums[p][1].TableSchema
    /\ localChecksums[p][1].CCL = remoteChecksums[p][1].CCL

\* every data party other than self has a remote checksum stored that
\* equals the local one in both hashes
ChecksumsAgree ==
    \A p \in OtherDataParties : BothStored(p) /\ SameChecksum(p)

\* some data party other than self has a remote checksum stored that
\* differs from the local one
ChecksumsDisagree ==
    \E p \in OtherDataParties : BothStored(p) /\ ~SameChecksum(p)

InLog(step) == \E i \in 1..Len(eLog) : eLog[i] = step

EngineInvoked == ePc # "idle" /\ InLog("engine")

\* C1 (as stated): in every run of Execute, on the fast path too, the
\* engine is invoked only if no data party other than self has a stored
\* remote checksum that differs from the local one.
C1_EngineOnlyOnAgreement == EngineInvoked => ~ChecksumsDisagree

\* C1 (amended): in every run of Execute that prepares again, the engine is
\* invoked only if every data party other than self has a stored remote
\* checksum equal to the recomputed local one in both hashes.
C1_RepreparedEngineOnlyOnAgreement ==
    (EngineInvoked /\ eReprepared) => ChecksumsAgree

C1_Witness ==
    /\ EngineInvoked
    /\ eReprepared
    /\ OtherDataParties # {}
    /\ ChecksumsAgree
    /\ stDrifts > 0

\* C2: a run of Execute with prepareAgain set that has prepared again and
\* recomputed the local checksums, and in which the checksums of some data
\* party other than self differ, ends with the error of checkChecksum: no
\* compile request, no persisted session, no engine invocation.  The error
\* is the mismatch error unless the comparison of an earlier party failed
\* for want of a stored checksum.
C2_MismatchStopsExecute ==
    (ePc # "idle" /\ eReprepared /\ InLog("check") /\ ChecksumsDisagree)
        => /\ ePc = "done"
           /\ eLog = <<"prepare", "checksum", "check">>
           /\ eErr.kind \in {"ChecksumNotEqual", "ErrCompareChecksum"}
           /\ (\A p \in OtherDataParties : BothStored(p))
                 => eErr.kind = "ChecksumNotEqual"
           /\ ePlan = None
           /\ eExecutor = None

C2_Witness ==
    /\ ePc = "done"
    /\ eReprepared
    /\ eErr.kind = "ChecksumNotEqual"
    /\ \E p \in OtherDataParties :
          /\ BothStored(p)
          /\ localChecksums[p][1].TableSchema
                # remoteChecksums[p][1].TableSchema
    /\ ~InLog("compile")

(***************************************************************************)
(* Properties of Prepare                                                   *)
(***************************************************************************)
PrepareCalled == pCalls' = pCalls + 1

\* C9 (as stated): a Prepare call that fails with table-not-found names
\* the missing tables and leaves tables, EnginesInfo, info schema and ccls
\* of the runner as they were before the call.
C9_FailedPrepareKeepsState ==
    [][(PrepareCalled /\ pLast'.err.kind = "TableNotFound")
          => /\ pLast'.err.detail = pLast'.notFoundLast
             /\ UNCHANGED <<rTables, rInfo, rIs, rCcls>>]_vars

\* C9 (amended): a Prepare call that fails with table-not-found names the
\* missing tables and leaves EnginesInfo, info schema and ccls nil, with
\* nothing partial in them; r.tables holds the tables that were found.
C9_FailedPrepareCommitsNothing ==
    [][(PrepareCalled /\ pLast'.err.kind = "TableNotFound")
          => /\ pLast'.err.detail = pLast'.notFoundLast
             /\ pLast'.err.detail = NotFoundTables(qNames, stPresent')
             /\ pLast'.err.detail # <<>>
             /\ rInfo' = None
             /\ rIs' = None
             /\ rCcls' = <<>>
             /\ rTables' = FoundTables(qNames, stPresent', stBType)]_vars

C9_Witness ==
    /\ pCalls = 2
    /\ pLast.err.kind = "TableNotFound"
    /\ pLast.err.detail = <<T_B>>
    /\ rTables # <<>>
    /\ rInfo = None

\* C10: whatever the prepareAgain flag, a Prepare call whose last
\* resolution reports a table not found fails (with table-not-found naming
\* the missing tables, unless the lookup of the project members failed
\* first) and builds no EnginesInfo and no ccls.
C10_UnresolvedTableFailsPrepare ==
    (pCalls > 0 /\ pLast.notFoundLast # <<>>)
        => /\ \/ pLast.err = [kind |-> "TableNotFound",
                              detail |-> pLast.notFoundLast]
              \/ pLast.err.kind = "ErrGetProjectMembers"
           /\ rInfo = None
           /\ rCcls = <<>>

\* the owners of the tables the runner holds
OwnersOf(tables) == {tables[i].owner : i \in 1..Len(tables)}

NoDuplicates(seq) ==
    \A i, j \in 1..Len(seq) : seq[i] = seq[j] => i = j

LogIndex(step) ==
    IF InLog(step) THEN CHOOSE i \in 1..Len(eLog) : eLog[i] = step ELSE 0

\* C12: on the issuing party the engine is invoked only after
\* PersistSessionInfo succeeded in the same run; when persisting fails the
\* run ends with that error and the engine is not invoked.
C12_PersistBeforeEngine ==
    /\ (IsIssuer /\ ePc = "engine") => InLog("persist")
    /\ (IsIssuer /\ EngineInvoked)
          => /\ InLog("persist")
             /\ LogIndex("persist") < LogIndex("engine")
             /\ persisted > 0
    /\ (ePc # "idle" /\ eErr.kind = "ErrPersist")
          => /\ ePc = "done"
             /\ IsIssuer
             /\ ~InLog("engine")
             /\ ~InLog("persist")

C12_Witness ==
    /\ IsIssuer
    /\ EngineInvoked
    /\ eLog[Len(eLog)] = "engine"
    /\ LogIndex("persist") = Len(eLog) - 1
    /\ persisted = 1

\* the assignments of the result slot made for a run, by a writer
WritesOf(by, run) ==
    {i \in 1..Len(resultLog) : resultLog[i] = ResultWrite(by, run)}

WritesFor(run) == WritesOf("execute", run) \cup WritesOf("callback", run)

\* C13: for every run of Execute the result slot is assigned at most once,
\* by Execute or by the callback of the engine; Execute assigns it exactly
\* once when the session is in sync mode and the engine replied with
\* status 0, and not at all in async mode or when a step of the run failed.
C13_ResultAssignedOnce ==
    /\ \A n \in 1..eRuns : Cardinality(WritesFor(n)) <= 1
    /\ ePc = "done"
          => (Cardinality(WritesOf("execute", eRuns)) =
                 IF ~asyncMode /\ eErr = NoErr THEN 1 ELSE 0)
    /\ (ePc = "done" /\ ~asyncMode /\ eErr = NoErr) => InLog("engine")
    /\ ePc \in {"compile", "executor", "persist", "engine"}
          => WritesFor(eRuns) = {}
    /\ asyncMode => \A n \in 1..eRuns : WritesOf("execute", n) = {}

C13_Witness ==
    /\ ePc = "done"
    /\ ~asyncMode
    /\ eErr = NoErr
    /\ resultLog = <<ResultWrite("execute", 1)>>

\* in async mode the one assignment of a run is the callback's
C13_WitnessAsync ==
    /\ asyncMode
    /\ eRuns = 1
    /\ resultLog = <<ResultWrite("callback", 1)>>

(***************************************************************************)
(* Properties of DryRun                                                    *)
(***************************************************************************)
DryRunCalled == ePc = "idle" /\ ePc' = "dryDone"

\* C14: a call of DryRun, whatever its outcome, invokes no engine, persists
\* nothing, writes no result and leaves the tables, EnginesInfo, info
\* schema, ccls and prepareAgain flag of the runner and the checksums of the
\* session as they were; a compile request is made only when checkChecksum
\* passed, and a failed check is the error returned.
C14_DryRunNoEffect ==
    [][DryRunCalled
          => /\ UNCHANGED <<rTables, rInfo, rIs, rCcls, rPrepareAgain>>
             /\ UNCHANGED <<localChecksums, remoteChecksums, execDataParties>>
             /\ UNCHANGED <<persisted, resultLog, cbPending, stvars>>
             /\ \A i \in 1..Len(eLog') :
                    eLog'[i] \notin {"engine", "persist", "result"}
             /\ (\E i \in 1..Len(eLog') : eLog'[i] = "compile")
                   <=> checkChecksum(execDataParties, localChecksums,
                                     remoteChecksums) = NoErr
             /\ eErr'.kind \in {"ChecksumNotEqual", "ErrCompareChecksum"}
                   <=> checkChecksum(execDataParties, localChecksums,
                                     remoteChecksums) # NoErr]_vars

\* the three outcomes of DryRun with a peer to compare with
C14_Witness ==
    /\ ePc = "dryDone"
    /\ OtherDataParties # {}
    /\ eErr = NoErr
    /\ eLog = <<"check", "compile">>
    /\ rInfo # None
    /\ ChecksumsAgree

C14_WitnessMismatch ==
    /\ ePc = "dryDone"
    /\ eErr.kind = "ChecksumNotEqual"
    /\ eLog = <<"check">>

C14_WitnessCompileError ==
    /\ ePc = "dryDone"
    /\ OtherDataParties # {}
    /\ eErr.kind = "ErrCompile"

(***************************************************************************)
(* Cancellation                                                            *)
(***************************************************************************)
\* a step of Execute taken from one of its places before the engine
ExecuteStepBeforeEngine == ePc \in BeforeEngine /\ ePc' # ePc

\* C15: once the context of the session is canceled before the engine is
\* invoked, the next step of Execute ends the run with a cancellation
\* error: nothing is compiled or persisted and the engine is not invoked
\* afterwards.
C15_CancelAbortsExecute ==
    [][(ctxCanceled /\ ExecuteStepBeforeEngine)
          => /\ ePc' = "done"
             /\ eErr'.kind = "ErrCanceled"
             /\ eLog' = eLog
             /\ persisted' = persisted]_vars

(***************************************************************************)
(* The GC loops as daemons                                                 *)
(***************************************************************************)
\* C16: neither GC loop ends on its own, whatever the metadata layer
\* answers: after a failed lock initialisation, a refused lease, a failed
\* scan or a failed lookup, StorageGc and SessionGc are waiting for a tick
\* or working on one.
C16_GcLoopsNeverExit ==
    /\ \A r \in Replicas : gPc[r] \in {"start", "wait", "scan"}
    /\ sPc \in {"wait", "check", "delete"}

(***************************************************************************)
(* CreateChecksum: order of the input                                      *)
(***************************************************************************)
\* the columns of a table in a view, as a set
ViewColumns(v, tableName) == SeqToSet(TableByName(v.is, tableName)[1].columns)

\* two views hold the same tables, columns and entries, in any order
SameUnderlying(v, w) ==
    /\ SeqToSet(v.tables) = SeqToSet(w.tables)
    /\ \A t \in SeqToSet(v.tables) : ViewColumns(v, t) = ViewColumns(w, t)
    /\ SeqToSet(v.ccls) = SeqToSet(w.ccls)

SameFingerprints(res) ==
    /\ res.local.TableSchema = res.remote.TableSchema
    /\ res.local.CCL = res.remote.CCL

\* C17: whenever two calls of CreateChecksum are given the same tables,
\* columns and CCL entries of a party, in whatever order, both the schema
\* fingerprint and the CCL fingerprint are the same, entries that share
\* table, column and destination party included.
C17_OrderIndependent ==
    (fnResult # None /\ SameUnderlying(fnArgs.local, fnArgs.remote))
        => SameFingerprints(fnResult[1])

\* C18: the fingerprints two brokers compute for the same party are equal
\* exactly when the tables, the column names and types, and the CCL
\* entries (table, column, destination party, visibility) they hold are
\* the same.
C18_FingerprintsEqualIffSame ==
    fnResult # None
        => (SameFingerprints(fnResult[1])
                <=> SameUnderlying(fnArgs.local, fnArgs.remote))

(***************************************************************************)
(* ExecuteInfo.DataParties                                                 *)
(***************************************************************************)
\* C19: after every successful preparation, the one Execute does when
\* prepareAgain is set included, ExecuteInfo.DataParties is the
\* duplicate-free list of the owners of the tables now resolved and the
\* issuer.
C19_DataPartiesCurrent ==
    (pCalls > 0 /\ pLast.err = NoErr)
        => /\ SeqToSet(execDataParties) = OwnersOf(rTables) \cup {execIssuer}
           /\ NoDuplicates(execDataParties)

(***************************************************************************)
(* CreateExecutor                                                          *)
(***************************************************************************)
\* endpoint and public key of every party of the plan resolve
PlanPartiesResolve(a) ==
    \A i \in 1..Len(a.plan.parties) :
        a.plan.parties[i] \in a.ep /\ a.plan.parties[i] \in a.pk

\* the plan has a subgraph for this party
HasOwnGraph(a) == SelfParty \in a.plan.subGraphs

\* the roster lists the parties of the plan in plan order, ranked from 0
RosterFollowsPlan(plan, roster) ==
    /\ Len(roster) = Len(plan.parties)
    /\ \A i \in 1..Len(roster) :
           roster[i].code = plan.parties[i] /\ roster[i].rank = i - 1

\* C20: CreateExecutor succeeds only if endpoint and public key of every
\* party of the plan resolve and the plan has a subgraph for this party;
\* otherwise it returns an error and no executor.  On success the roster
\* lists the plan's parties in plan order, the i-th with rank i from 0, and
\* the request map has one entry, keyed by this party's code.
C20_CreateExecutor ==
    ("plan" \in DOMAIN fnArgs /\ fnResult # None)
        => /\ fnResult[1].err = NoErr
                => PlanPartiesResolve(fnArgs) /\ HasOwnGraph(fnArgs)
           /\ ~(PlanPartiesResolve(fnArgs) /\ HasOwnGraph(fnArgs))
                => fnResult[1].err # NoErr /\ fnResult[1].executor = None
           /\ fnResult[1].err = NoErr
                => /\ fnResult[1].executor # None
                   /\ RosterFollowsPlan(fnArgs.plan,
                                        fnResult[1].executor[1].roster)
                   /\ fnResult[1].executor[1].planReqs = {SelfParty}

\* an executor was built for a plan that lists this party second
C20_Witness ==
    /\ "plan" \in DOMAIN fnArgs
    /\ fnResult # None
    /\ fnResult[1].err = NoErr
    /\ fnArgs.plan.parties = <<2, 1>>
    /\ fnResult[1].executor[1].roster[2] = [code |-> 1, rank |-> 1]

\* a party of the plan has no endpoint: an error and no executor
C20_WitnessUnresolved ==
    /\ "plan" \in DOMAIN fnArgs
    /\ fnResult # None
    /\ fnArgs.plan.parties = <<1, 2>>
    /\ 2 \notin fnArgs.ep
    /\ HasOwnGraph(fnArgs)
    /\ fnResult[1].err = Err("ErrGetEndpoint")
    /\ fnResult[1].executor = None

(***************************************************************************)
(* The metadata transactions of prepareData                                *)
(***************************************************************************)
\* C21: whichever way the last call of prepareData went, every metadata
\* transaction it opened has been finished exactly once when it returned:
\* the first one, and the second one when the peers were asked.
C21_TxnsFinishedOnce ==
    pCalls > 0
        => /\ Len(pLast.txns) \in {1, 2}
           /\ \A i \in 1..Len(pLast.txns) : pLast.txns[i] = 1

\* the peers were asked, pushed the missing table, and the call succeeded
C21_Witness ==
    /\ pCalls > 0
    /\ Len(pLast.txns) = 2
    /\ pLast.err = NoErr
    /\ Len(rTables) = 2

\* the peers were asked and the table is still missing
C21_WitnessStillMissing ==
    /\ pCalls > 0
    /\ Len(pLast.txns) = 2
    /\ pLast.err.kind = "TableNotFound"

\* the first resolution failed: one transaction, finished by the return
C21_WitnessFirstError ==
    /\ pCalls > 0
    /\ Len(pLast.txns) = 1
    /\ pLast.err = Err("ErrGetTableMetas")

\* every table was found at once
C21_WitnessAllFound ==
    /\ pCalls > 0
    /\ Len(pLast.txns) = 1
    /\ pLast.err = NoErr
    /\ ~pLast.prepareAgain
    /\ Len(rTables) = 2

====
